---- MODULE Spec2Model ----
(***************************************************************************)
(* Vector indexing, clustering and relevance-filtered retrieval of the     *)
(* pdf-to-vector scripts: cluster_pdfs.py (indexing and K-means labelling  *)
(* of a Chroma collection) and rag_chat.py (retrieval, threshold filter,   *)
(* context assembly, answer generation).                                   *)
(*                                                                         *)
(* Numbers that are floats in the program (distances, relevance scores,    *)
(* the threshold) are fixed-point integers in units of 1/Unit.             *)
(***************************************************************************)
EXTENDS Integers, Sequences, FiniteSets, TLC

\* ------------------------------------------------------------------------
\* Bounds of the model
\* ------------------------------------------------------------------------
MaxBatch == 2       \* documents in one call of create_chroma_collection

\* ------------------------------------------------------------------------
\* Program constants
\* ------------------------------------------------------------------------
TOP_K_RESULTS == 5
DEFAULT_THRESHOLD == 3000   \* RELEVANCE_THRESHOLD = 0.3, in 1/Unit
Unit == 10000               \* fixed-point scale: the float 1 of "1 - distance"

\* ------------------------------------------------------------------------
\* Input domains
\* ------------------------------------------------------------------------
\* The PDF directory: a.pdf has two pages, b.pdf has one. Every page has
\* two versions of its text, so that re-indexing can meet changed content.
PageIds == {<<"a.pdf", 1>>, <<"a.pdf", 2>>, <<"b.pdf", 1>>}
Versions == {"v1", "v2"}
QueryTexts == {"q1", "q2"}
KRequested == {1, 2, 10}
Thresholds == {0, 3000, 7500, 10000}
Passes == {1, 2}

VARIABLES
    collection,           \* the Chroma collection: records in store order
    K_CLUSTERS,           \* configured cluster count
    RELEVANCE_THRESHOLD,  \* configured relevance threshold, in 1/Unit
    pass,                 \* the locals of each run of perform_clustering
    out                   \* what the last finished call returned or printed

vars == <<collection, K_CLUSTERS, RELEVANCE_THRESHOLD, pass, out>>

\* ------------------------------------------------------------------------
\* Helpers
\* ------------------------------------------------------------------------
Range(s) == {s[i] : i \in 1..Len(s)}

Min(a, b) == IF a < b THEN a ELSE b

Digit(n) == <<"0", "1", "2", "3", "4", "5", "6", "7", "8", "9">>[n + 1]

\* str(n) of a non-negative integer, as the f-strings render it
RECURSIVE Str(_)
Str(n) == IF n < 10 THEN Digit(n) ELSE Str(n \div 10) \o Digit(n % 10)

RECURSIVE SeqsUpTo(_, _)
SeqsUpTo(S, n) ==
    IF n = 0 THEN {<<>>}
    ELSE LET shorter == SeqsUpTo(S, n - 1)
         IN  shorter \cup {Append(s, x) : s \in {t \in shorter : Len(t) = n - 1}, x \in S}

\* ------------------------------------------------------------------------
\* Documents as extract_text_from_pdfs produces them
\* ------------------------------------------------------------------------
\* The text of a page: page.extract_text() of that version of the file.
PageText(id, v) == id[1] \o "#" \o Str(id[2]) \o v

Docs ==
    {[text |-> PageText(id, v), metadata |-> [source |-> id[1], page |-> id[2]]] :
        id \in PageIds, v \in Versions}

\* ids = [f"{doc['metadata']['source']}_p{doc['metadata']['page']}" ...]
MakeId(doc) == doc.metadata.source \o "_p" \o Str(doc.metadata.page)

IdsOfDocs(docs) == [i \in 1..Len(docs) |-> MakeId(docs[i])]

\* One extraction lists every (file, page) once and main() skips an empty
\* list, so a batch is a non-empty list of documents with distinct ids.
DistinctDocSeqs(n) ==
    {b \in SeqsUpTo(Docs, n) : Cardinality(Range(IdsOfDocs(b))) = Len(b)}

Batches == DistinctDocSeqs(MaxBatch) \ {<<>>}

\* The embedding the document-intent embedding function gives a text
\* (one coordinate, in hundredths).
EmbedDocument(text) ==
    CASE text = "a.pdf#1v1" -> 0
      [] text = "a.pdf#1v2" -> 50
      [] text = "a.pdf#2v1" -> 50
      [] text = "a.pdf#2v2" -> 116
      [] text = "b.pdf#1v1" -> 116
      [] text = "b.pdf#1v2" -> 0

\* The embedding the query-intent embedding function gives a query text.
EmbedQuery(text) ==
    CASE text = "q1" -> 0
      [] text = "q2" -> 84

\* ------------------------------------------------------------------------
\* The collection (Chroma) as the scripts use it
\* ------------------------------------------------------------------------
\* A record is [id, document, embedding, metadata]; the metadata is a
\* mapping with the keys source and page and, once clustered, cluster_id.

IdsOf(col) == [i \in 1..Len(col) |-> col[i].id]

RECURSIVE SelectIds(_, _)
\* collection.get(ids=...): the records named, in store order
SelectIds(col, ids) ==
    IF col = <<>> THEN <<>>
    ELSE IF Head(col).id \in ids
         THEN <<Head(col)>> \o SelectIds(Tail(col), ids)
         ELSE SelectIds(Tail(col), ids)

RECURSIVE AddNew(_, _, _)
\* collection.add(documents, metadatas, ids): a record whose id is already
\* stored is left as it is, the others are appended in batch order
AddNew(col, ids, docs) ==
    IF docs = <<>> THEN col
    ELSE LET d == Head(docs)
             rec == [id |-> Head(ids), document |-> d.text,
                     embedding |-> EmbedDocument(d.text), metadata |-> d.metadata]
         IN  IF Head(ids) \in Range(IdsOf(col))
             THEN AddNew(col, Tail(ids), Tail(docs))
             ELSE AddNew(Append(col, rec), Tail(ids), Tail(docs))

MergeMeta(old, new) ==
    [key \in DOMAIN old \cup DOMAIN new |->
        IF key \in DOMAIN new THEN new[key] ELSE old[key]]

\* collection.update(ids, metadatas): metadatas[i] becomes the metadata of
\* the record named ids[i]. The script takes the supplied mapping to stand
\* in place of the stored one ("Chroma doesn't have a single-field update");
\* a store that writes the supplied keys over the stored ones ends in the
\* same state whenever the mapping was read from the store, as it is here.
UpdateMetadatas(col, ids, metadatas) ==
    [j \in 1..Len(col) |->
        LET hits == {i \in 1..Min(Len(ids), Len(metadatas)) : ids[i] = col[j].id}
        IN  IF hits = {} THEN col[j]
            ELSE LET i == CHOOSE h \in hits : \A g \in hits : g <= h
                 IN  [col[j] EXCEPT !.metadata = metadatas[i]]]

\* ------------------------------------------------------------------------
\* K-means (sklearn), as far as the scripts depend on it
\* ------------------------------------------------------------------------
\* KMeans(n_clusters=k, random_state=42, n_init=10).fit_predict(vectors):
\* a fixed labelling of the positions with labels in 0..k-1 in which equal
\* vectors get equal labels. Here: the rank of the vector among the
\* distinct vectors, the ranks from k-1 on sharing the last cluster.
LabelOf(v, all, k) == Min(Cardinality({w \in all : w < v}), k - 1)

KMeans(vectors, k) ==
    [i \in 1..Len(vectors) |-> LabelOf(vectors[i], Range(vectors), k)]

\* ------------------------------------------------------------------------
\* State
\* ------------------------------------------------------------------------
IdlePass ==
    [pc |-> "idle", all_ids |-> <<>>, ids_to_update |-> <<>>, vectors |-> <<>>,
     k |-> 0, cluster_labels |-> <<>>, i |-> 0, updated_metadatas |-> <<>>,
     report |-> "none", updates |-> 0]

NoOut == [op |-> "none"]

\* No run of perform_clustering is under way.
Serial == \A p \in Passes : pass[p].pc = "idle"

\* cluster_pdfs.py starts on the collection it has just created; rag_chat.py
\* of the pipeline runs with RELEVANCE_THRESHOLD = 0.3.
Init ==
    /\ collection = <<>>
    /\ K_CLUSTERS \in KRequested
    /\ RELEVANCE_THRESHOLD = DEFAULT_THRESHOLD
    /\ pass = [p \in Passes |-> IdlePass]
    /\ out = NoOut

\* ------------------------------------------------------------------------
\* cluster_pdfs.py
\* ------------------------------------------------------------------------
\* Mutant: the batch is upserted, a stored record is replaced by the new one.
create_chroma_collection_upsert(docs) ==
    LET ids == IdsOfDocs(docs)
        fresh == AddNew(SelectIds(collection, Range(IdsOf(collection)) \ Range(ids)),
                        ids, docs)
    IN  /\ collection' = fresh
        /\ out' = [op |-> "add", count |-> Len(fresh)]
        /\ UNCHANGED <<K_CLUSTERS, RELEVANCE_THRESHOLD, pass>>

\* create_chroma_collection(db_path, name, docs)
create_chroma_collection(docs) ==
    /\ collection' = AddNew(collection, IdsOfDocs(docs), docs)
    /\ out' = [op |-> "add", count |-> Len(collection')]
    /\ UNCHANGED <<K_CLUSTERS, RELEVANCE_THRESHOLD, pass>>

Insert == Serial /\ \E docs \in Batches : create_chroma_collection(docs)

\* perform_clustering, first read: collection.get()['ids']
GetIds(p) ==
    /\ pass[p].pc = "idle"
    /\ pass' = [pass EXCEPT ![p] = [IdlePass EXCEPT !.pc = "got_ids",
                                                    !.all_ids = IdsOf(collection)]]
    /\ out' = NoOut
    /\ UNCHANGED <<collection, K_CLUSTERS, RELEVANCE_THRESHOLD>>

\* Mutant: the labels are zipped onto the fetched metadatas back to front.
WithClusterIdsReversed(metadatas, cluster_labels) ==
    [i \in 1..Len(metadatas) |->
        MergeMeta(metadatas[i],
                  [cluster_id |-> cluster_labels[Len(cluster_labels) + 1 - i]])]

\* Mutant: the update sends a fresh mapping that holds the cluster_id alone.
WithClusterIdsOnly(metadatas, cluster_labels) ==
    [i \in 1..Len(metadatas) |-> [cluster_id |-> cluster_labels[i]]]

\* The labels written at position i of the metadatas fetched in the loop:
\* metadata['cluster_id'] = int(cluster_labels[i])
WithClusterIds(metadatas, cluster_labels) ==
    [i \in 1..Len(metadatas) |->
        MergeMeta(metadatas[i], [cluster_id |-> cluster_labels[i]])]

\* Mutant: K-means is asked for the configured number of clusters.
AdjustKNoMin(vectors) == K_CLUSTERS

\* k = min(K_CLUSTERS, len(vectors))
AdjustK(vectors) == Min(K_CLUSTERS, Len(vectors))

\* Mutant: only an empty collection is too small to cluster.
NotEnoughDataOnlyEmpty(vectors) == Len(vectors) < 1

\* if len(vectors) < 2: ... return
NotEnoughData(vectors) == Len(vectors) < 2

\* perform_clustering, second read and K-means:
\* collection.get(ids=..., include=["embeddings"]) up to fit_predict
GetEmbeddings(p) ==
    LET results == SelectIds(collection, Range(pass[p].all_ids))
        vectors == [i \in 1..Len(results) |-> results[i].embedding]
        k == AdjustK(vectors)
    IN  /\ pass[p].pc = "got_ids"
        /\ pass' = [pass EXCEPT ![p] =
              IF NotEnoughData(vectors)
              THEN [@ EXCEPT !.pc = "done", !.vectors = vectors, !.k = k,
                             !.report = "insufficient"]
              ELSE [@ EXCEPT !.pc = "loop", !.vectors = vectors, !.k = k,
                             !.report = IF k < K_CLUSTERS THEN "adjusted" ELSE "none",
                             !.cluster_labels = KMeans(vectors, k),
                             !.ids_to_update = IdsOf(results),
                             !.i = 1]]
        /\ UNCHANGED <<collection, K_CLUSTERS, RELEVANCE_THRESHOLD, out>>

\* Mutant: a record that already has a cluster_id keeps it.
LoopGetKeepsStored(p) ==
    LET full_results == SelectIds(collection, Range(pass[p].ids_to_update))
        metadatas == [i \in 1..Len(full_results) |-> full_results[i].metadata]
        labelled == WithClusterIds(metadatas, pass[p].cluster_labels)
    IN  /\ pass[p].pc = "loop"
        /\ pass' = [pass EXCEPT ![p].pc = "update",
                                ![p].updated_metadatas =
                                    [i \in 1..Len(metadatas) |->
                                        IF "cluster_id" \in DOMAIN metadatas[i]
                                        THEN metadatas[i] ELSE labelled[i]]]
        /\ UNCHANGED <<collection, K_CLUSTERS, RELEVANCE_THRESHOLD, out>>

\* One iteration of the update loop, its read:
\* collection.get(ids=ids_to_update, include=["metadatas"]) and the
\* cluster_id written into each fetched mapping
LoopGet(p) ==
    LET full_results == SelectIds(collection, Range(pass[p].ids_to_update))
        metadatas == [i \in 1..Len(full_results) |-> full_results[i].metadata]
    IN  /\ pass[p].pc = "loop"
        /\ pass' = [pass EXCEPT ![p].pc = "update",
                                ![p].updated_metadatas =
                                    WithClusterIds(metadatas, pass[p].cluster_labels)]
        /\ UNCHANGED <<collection, K_CLUSTERS, RELEVANCE_THRESHOLD, out>>

\* Mutant: an iteration writes the metadata of its own doc_id only.
LoopUpdateOneRecord(p) ==
    /\ pass[p].pc = "update"
    /\ collection' = UpdateMetadatas(collection,
                                     <<pass[p].ids_to_update[pass[p].i]>>,
                                     <<pass[p].updated_metadatas[pass[p].i]>>)
    /\ pass' = [pass EXCEPT ![p].updates = @ + 1,
                            ![p].i = @ + 1,
                            ![p].updated_metadatas = <<>>,
                            ![p].pc = IF pass[p].i + 1 > Len(pass[p].ids_to_update)
                                      THEN "done" ELSE "loop"]
    /\ UNCHANGED <<K_CLUSTERS, RELEVANCE_THRESHOLD, out>>

\* One iteration of the update loop, its write:
\* collection.update(ids=ids_to_update, metadatas=updated_metadatas)
LoopUpdate(p) ==
    /\ pass[p].pc = "update"
    /\ collection' = UpdateMetadatas(collection, pass[p].ids_to_update,
                                     pass[p].updated_metadatas)
    /\ pass' = [pass EXCEPT ![p].updates = @ + 1,
                            ![p].i = @ + 1,
                            ![p].updated_metadatas = <<>>,
                            ![p].pc = IF pass[p].i + 1 > Len(pass[p].ids_to_update)
                                      THEN "done" ELSE "loop"]
    /\ UNCHANGED <<K_CLUSTERS, RELEVANCE_THRESHOLD, out>>

\* perform_clustering returns (after its summary, or after the
\* "Not enough data" message)
Return(p) ==
    /\ pass[p].pc = "done"
    /\ out' = [op |-> "cluster", report |-> pass[p].report, k |-> pass[p].k]
    /\ pass' = [pass EXCEPT ![p] = IdlePass]
    /\ UNCHANGED <<collection, K_CLUSTERS, RELEVANCE_THRESHOLD>>

\* ------------------------------------------------------------------------
\* rag_chat.py
\* ------------------------------------------------------------------------
\* The distance Chroma reports between a query embedding and a stored one
\* (squared difference of the coordinates, in 1/Unit).
Distance(q, e) == (q - e) * (q - e)

RECURSIVE Nearest(_, _, _)
\* The n nearest records by ascending distance, equal distances in store order
Nearest(col, q, n) ==
    IF col = <<>> \/ n = 0 THEN <<>>
    ELSE LET best == CHOOSE i \in 1..Len(col) :
                        \A j \in 1..Len(col) :
                            \/ Distance(q, col[i].embedding) < Distance(q, col[j].embedding)
                            \/ /\ Distance(q, col[i].embedding) = Distance(q, col[j].embedding)
                               /\ i <= j
             rest == [j \in 1..(Len(col) - 1) |-> IF j < best THEN col[j] ELSE col[j + 1]]
         IN  <<col[best]>> \o Nearest(rest, q, n - 1)

\* collection.query(query_texts=[query], n_results=n_results,
\*                  include=["documents", "metadatas", "distances"])
StoreQuery(col, query, n_results) ==
    LET hits == Nearest(col, EmbedQuery(query), n_results)
    IN  [documents |-> [i \in 1..Len(hits) |-> hits[i].document],
         metadatas |-> [i \in 1..Len(hits) |-> hits[i].metadata],
         distances |-> [i \in 1..Len(hits) |->
                            Distance(EmbedQuery(query), hits[i].embedding)]]

EmptyResults == [documents |-> <<>>, metadatas |-> <<>>, distances |-> <<>>]

RECURSIVE FilterFrom(_, _, _, _)
\* The filter loop of retrieve_relevant_docs from position i on
FilterFrom(results, i, threshold, kept) ==
    IF i > Len(results.documents) THEN kept
    ELSE LET relevance_score == Unit - results.distances[i]
         IN  IF relevance_score >= threshold
             THEN FilterFrom(results, i + 1, threshold,
                     [documents |-> Append(kept.documents, results.documents[i]),
                      metadatas |-> Append(kept.metadatas, results.metadatas[i]),
                      distances |-> Append(kept.distances, results.distances[i])])
             ELSE FilterFrom(results, i + 1, threshold, kept)

RECURSIVE FilterFromStrict(_, _, _, _)
FilterFromStrict(results, i, threshold, kept) ==
    IF i > Len(results.documents) THEN kept
    ELSE IF Unit - results.distances[i] > threshold
         THEN FilterFromStrict(results, i + 1, threshold,
                 [documents |-> Append(kept.documents, results.documents[i]),
                  metadatas |-> Append(kept.metadatas, results.metadatas[i]),
                  distances |-> Append(kept.distances, results.distances[i])])
         ELSE FilterFromStrict(results, i + 1, threshold, kept)

\* Mutant: the filter keeps a result only if its relevance exceeds the threshold.
retrieve_relevant_docs_strict(col, query, threshold) ==
    LET results == StoreQuery(col, query, TOP_K_RESULTS)
    IN  IF results.documents # <<>>
        THEN FilterFromStrict(results, 1, threshold, EmptyResults)
        ELSE results

\* retrieve_relevant_docs(collection, query, n_results=TOP_K_RESULTS)
retrieve_relevant_docs(col, query, threshold) ==
    LET results == StoreQuery(col, query, TOP_K_RESULTS)
    IN  IF results.documents # <<>>
        THEN FilterFrom(results, 1, threshold, EmptyResults)
        ELSE results

\* f"{x:.3f}" of x/Unit
Fmt3(x) ==
    LET a == IF x < 0 THEN 0 - x ELSE x
        r == (a + 5) \div 10
    IN  (IF x < 0 THEN "-" ELSE "") \o Str(r \div 1000) \o "." \o
        Digit((r \div 100) % 10) \o Digit((r \div 10) % 10) \o Digit(r % 10)

Delimiter == "\n---\n"

\* Mutant: the blocks are numbered from 0.
ContextPartZeroBased(i, doc, metadata, distance) ==
    <<"[Document ", Str(i - 1), "]\n",
      "Source: ", metadata.source, " (Page ", Str(metadata.page), ", Cluster ",
      IF "cluster_id" \in DOMAIN metadata THEN Str(metadata.cluster_id) ELSE "N/A", ")\n",
      "Relevance Score: ", Fmt3(Unit - distance), "\n",
      "Content: ", doc, "\n">>

\* One entry of context_parts, as the pieces of its f-string
ContextPart(i, doc, metadata, distance) ==
    LET source == IF "source" \in DOMAIN metadata THEN metadata.source ELSE "Unknown"
        page == IF "page" \in DOMAIN metadata THEN Str(metadata.page) ELSE "N/A"
        cluster == IF "cluster_id" \in DOMAIN metadata
                   THEN Str(metadata.cluster_id) ELSE "N/A"
    IN  <<"[Document ", Str(i), "]\n",
          "Source: ", source, " (Page ", page, ", Cluster ", cluster, ")\n",
          "Relevance Score: ", Fmt3(Unit - distance), "\n",
          "Content: ", doc, "\n">>

RECURSIVE JoinParts(_, _)
\* "\n---\n".join(context_parts)
JoinParts(parts, i) ==
    IF i > Len(parts) THEN <<>>
    ELSE IF i = Len(parts) THEN parts[i]
    ELSE parts[i] \o <<Delimiter>> \o JoinParts(parts, i + 1)

\* format_context(results): the context string as the sequence of its pieces
format_context(results) ==
    JoinParts([i \in 1..Len(results.documents) |->
                  ContextPart(i, results.documents[i], results.metadatas[i],
                              results.distances[i])], 1)

\* Mutant: the check for an empty result list is missing.
QueryOutcomeNoEmptyCheck(mode, query, results, fail) ==
    IF fail = "retrieve"
    THEN [op |-> "query", mode |-> mode, query |-> query, outcome |-> "error",
          candidates |-> EmptyResults, results |-> EmptyResults,
          context |-> <<>>, calls |-> <<"retrieve_relevant_docs">>]
    ELSE [op |-> "query", mode |-> mode, query |-> query,
          outcome |-> IF fail = "generate" THEN "error" ELSE "answered",
          candidates |-> StoreQuery(collection, query, TOP_K_RESULTS),
          results |-> results, context |-> format_context(results),
          calls |-> <<"retrieve_relevant_docs", "format_context", "generate_response">>]

\* What one query prints and calls. fail names the external call that
\* raises in this run, if any: the embedding/store call inside retrieval or
\* the generative model.
QueryOutcome(mode, query, results, fail) ==
    LET base == [op |-> "query", mode |-> mode, query |-> query,
                 candidates |-> EmptyResults, results |-> EmptyResults,
                 context |-> <<>>, calls |-> <<"retrieve_relevant_docs">>]
        seen == [base EXCEPT !.candidates = StoreQuery(collection, query, TOP_K_RESULTS),
                             !.results = results]
        all_calls == <<"retrieve_relevant_docs", "format_context", "generate_response">>
    IN  IF fail = "retrieve" THEN [outcome |-> "error"] @@ base
        ELSE IF results.documents = <<>> THEN [outcome |-> "no_relevant"] @@ seen
        ELSE [outcome |-> IF fail = "generate" THEN "error" ELSE "answered"] @@
             [seen EXCEPT !.context = format_context(results), !.calls = all_calls]

Failures == {"none", "retrieve", "generate"}

\* query_once(collection, query)
query_once(query) ==
    LET results == retrieve_relevant_docs(collection, query, RELEVANCE_THRESHOLD)
    IN  /\ out' \in {QueryOutcome("once", query, results, fail) : fail \in Failures}
        /\ UNCHANGED <<collection, K_CLUSTERS, RELEVANCE_THRESHOLD, pass>>

\* One turn of the loop of chat_with_pdfs with a non-empty query that is not
\* quit/exit/q
chat_with_pdfs(query) ==
    LET results == retrieve_relevant_docs(collection, query, RELEVANCE_THRESHOLD)
    IN  /\ out' \in {QueryOutcome("chat", query, results, fail) : fail \in Failures}
        /\ UNCHANGED <<collection, K_CLUSTERS, RELEVANCE_THRESHOLD, pass>>

QueryOnce == Serial /\ \E query \in QueryTexts : query_once(query)

ChatTurn == Serial /\ \E query \in QueryTexts : chat_with_pdfs(query)

\* ------------------------------------------------------------------------
\* Specifications
\* ------------------------------------------------------------------------
StartPass == Serial /\ \E p \in Passes : GetIds(p)

PassStep == \E p \in Passes : GetEmbeddings(p) \/ LoopGet(p) \/ LoopUpdate(p) \/ Return(p)

\* The pipeline: documents are indexed, clustered and queried, one call at
\* a time.
Next == Insert \/ StartPass \/ PassStep \/ QueryOnce

Spec == Init /\ [][Next]_vars

\* Two processes running cluster_pdfs.py on the same persistent path: the
\* first read of perform_clustering in one process while the other may be
\* anywhere in its own run. overlapped records, for the run that starts and
\* for a run it finds under way, that the two runs share some of their time
\* (a history of the run, not a value the script holds).
GetIdsOverlapping(p) ==
    LET busy == {q \in Passes : pass[q].pc # "idle"}
    IN  /\ pass[p].pc = "idle"
        /\ pass' = [q \in Passes |->
              IF q = p
              THEN [overlapped |-> busy # {}] @@
                   [IdlePass EXCEPT !.pc = "got_ids", !.all_ids = IdsOf(collection)]
              ELSE IF q \in busy THEN [pass[q] EXCEPT !.overlapped = TRUE]
              ELSE pass[q]]
        /\ out' = NoOut
        /\ UNCHANGED <<collection, K_CLUSTERS, RELEVANCE_THRESHOLD>>

StartOverlapping == \E p \in Passes : GetIdsOverlapping(p)

\* create_chroma_collection in a process of its own, at any moment
InsertAnyTime == \E docs \in Batches : create_chroma_collection(docs)

\* Nothing serializes the processes: every store read and every bulk update
\* of one run may fall between two of the other's.
NextConcurrent == InsertAnyTime \/ StartOverlapping \/ PassStep

\* K_CLUSTERS = 10
DEFAULT_K_CLUSTERS == 10

\* Both processes run cluster_pdfs.py as it is written, on a collection
\* that starts empty.
InitConcurrent ==
    /\ collection = <<>>
    /\ K_CLUSTERS = DEFAULT_K_CLUSTERS
    /\ RELEVANCE_THRESHOLD = DEFAULT_THRESHOLD
    /\ pass = [p \in Passes |-> IdlePass]
    /\ out = NoOut

SpecConcurrent == InitConcurrent /\ [][NextConcurrent]_vars

\* The collections cluster_pdfs.py can leave behind: any records with
\* distinct ids in any order, the first m of them labelled by the last
\* clustering pass (m = 0: never clustered; a pass needs 2 records).
PlainCollections ==
    {AddNew(<<>>, IdsOfDocs(b), b) : b \in DistinctDocSeqs(Cardinality(PageIds))}

LabelledPrefix(col, m, K) ==
    LET labels == KMeans([i \in 1..m |-> col[i].embedding], Min(K, m))
    IN  [j \in 1..Len(col) |->
            IF j <= m
            THEN [col[j] EXCEPT !.metadata = MergeMeta(@, [cluster_id |-> labels[j]])]
            ELSE col[j]]

IndexedCollections(K) ==
    UNION {{LabelledPrefix(col, m, K) : m \in {0} \cup 2..Len(col)} :
              col \in PlainCollections}

\* Between the calls of the pipeline the collection is one of these.
CollectionIsIndexed == Serial => collection \in IndexedCollections(K_CLUSTERS)

\* rag_chat.py opens a collection the indexing left behind and answers
\* queries, with any configured threshold.
InitChat ==
    /\ K_CLUSTERS \in KRequested
    /\ collection \in IndexedCollections(K_CLUSTERS)
    /\ RELEVANCE_THRESHOLD \in Thresholds
    /\ pass = [p \in Passes |-> IdlePass]
    /\ out = NoOut

NextChat == QueryOnce \/ ChatTurn

SpecChat == InitChat /\ [][NextChat]_vars

\* RELEVANCE_THRESHOLD is a module constant of rag_chat.py: whoever deploys
\* the script configures it by editing the assignment, to 0.3 or to a value
\* outside [0, 1] such as -0.1 or 1.2.
ConfiguredThresholds == {0 - 1000, DEFAULT_THRESHOLD, 12000}

\* rag_chat.py from import to the first prompt: the assignment of the
\* constants, the GEMINI_API_KEY check (the only check made before the
\* queries) and initialize_chroma().
InitChatConfigured ==
    /\ K_CLUSTERS \in KRequested
    /\ collection \in IndexedCollections(K_CLUSTERS)
    /\ RELEVANCE_THRESHOLD \in ConfiguredThresholds
    /\ pass = [p \in Passes |-> IdlePass]
    /\ out = NoOut

SpecChatConfigured == InitChatConfigured /\ [][NextChat]_vars

\* ------------------------------------------------------------------------
\* Properties
\* ------------------------------------------------------------------------
HasClusterId(rec) == "cluster_id" \in DOMAIN rec.metadata

QueryAnswered == out.op = "query" /\ out.outcome # "error"

\* The positions of the candidates whose relevance reaches the threshold
KeptPositions ==
    {i \in 1..Len(out.candidates.documents) :
        Unit - out.candidates.distances[i] >= RELEVANCE_THRESHOLD}

NthKept(j) == CHOOSE i \in KeptPositions : Cardinality({m \in KeptPositions : m <= i}) = j

\* C1: with a threshold in [0,1], what retrieve_relevant_docs returns is
\* exactly the candidates of the store query whose relevance 1 - distance is
\* >= the threshold: none below it is returned, none at or above it is left
\* out, and documents, metadatas and distances stay aligned in the
\* candidates' order.
C1_RetrieveKeepsExactlyRelevant ==
    (QueryAnswered /\ RELEVANCE_THRESHOLD \in 0..Unit) =>
        LET c == out.candidates
            r == out.results
            n == Cardinality(KeptPositions)
        IN  /\ Len(r.documents) = n /\ Len(r.metadatas) = n /\ Len(r.distances) = n
            /\ \A j \in 1..n :
                  /\ Unit - r.distances[j] >= RELEVANCE_THRESHOLD
                  /\ r.documents[j] = c.documents[NthKept(j)]
                  /\ r.metadatas[j] = c.metadatas[NthKept(j)]
                  /\ r.distances[j] = c.distances[NthKept(j)]

\* C1 witness: three candidates, the last one dropped, and one kept whose
\* relevance equals the threshold.
C1_Witness ==
    /\ QueryAnswered
    /\ Len(out.candidates.documents) = 3
    /\ KeptPositions = {1, 2}
    /\ Len(out.results.documents) = 2
    /\ Unit - out.candidates.distances[2] = RELEVANCE_THRESHOLD
    /\ RELEVANCE_THRESHOLD > 0

\* C2 (as claimed): an insert is an upsert. After create_chroma_collection
\* the stored ids are the ids inserted so far, each once, and every document
\* of the batch is stored with the text and metadata just given.
C2_InsertIsUpsert ==
    [][\A docs \in Batches :
          (Serial /\ create_chroma_collection(docs)) =>
              /\ Cardinality(Range(IdsOf(collection'))) = Len(collection')
              /\ Range(IdsOf(collection')) =
                    Range(IdsOf(collection)) \cup Range(IdsOfDocs(docs))
              /\ \A i \in 1..Len(docs) :
                    \E j \in 1..Len(collection') :
                        /\ collection'[j].id = MakeId(docs[i])
                        /\ collection'[j].document = docs[i].text
                        /\ collection'[j].metadata.source = docs[i].metadata.source
                        /\ collection'[j].metadata.page = docs[i].metadata.page]_vars

\* C3: a clustering pass over n >= 2 vectors uses k = min(K_CLUSTERS, n)
\* clusters, every label computed and every label written is in 0..k-1, and
\* the adjustment of K is reported exactly when k < K_CLUSTERS.
C3_KIsMinAndLabelsInRange ==
    \A p \in Passes :
        (pass[p].pc \in {"loop", "update", "done"} /\ Len(pass[p].vectors) >= 2) =>
            LET n == Len(pass[p].vectors)
                k == pass[p].k
            IN  /\ k <= K_CLUSTERS /\ k <= n /\ (k = K_CLUSTERS \/ k = n)
                /\ Len(pass[p].cluster_labels) = n
                /\ \A i \in 1..n : pass[p].cluster_labels[i] \in 0..(k - 1)
                /\ (pass[p].report = "adjusted") <=> (k < K_CLUSTERS)
                /\ pass[p].pc = "done" =>
                      \A j \in 1..Len(collection) :
                          /\ HasClusterId(collection[j])
                          /\ collection[j].metadata.cluster_id \in 0..(k - 1)

\* C3 witness: a finished pass over three records with K_CLUSTERS = 10,
\* adjusted to three clusters, all three labels in use.
C3_Witness ==
    \E p \in Passes :
        /\ pass[p].pc = "done"
        /\ K_CLUSTERS = 10 /\ pass[p].k = 3 /\ pass[p].report = "adjusted"
        /\ {collection[j].metadata.cluster_id : j \in 1..Len(collection)} = {0, 1, 2}

\* The metadata create_chroma_collection stored for a record, untouched
Unclustered(rec) ==
    /\ DOMAIN rec.metadata = {"source", "page"}
    /\ rec.id = rec.metadata.source \o "_p" \o Str(rec.metadata.page)

\* C4: a clustering pass over fewer than 2 records ends normally with the
\* "not enough data" report, has made no update call, and every record's
\* metadata is as it was stored: source and page, no cluster_id.
C4_TooFewRecordsIsNoOp ==
    \A p \in Passes :
        (pass[p].pc = "done" /\ Len(pass[p].vectors) < 2) =>
            /\ pass[p].report = "insufficient"
            /\ pass[p].updates = 0
            /\ Len(collection) = Len(pass[p].vectors)
            /\ \A j \in 1..Len(collection) : Unclustered(collection[j])

\* C4 witness: a pass has finished over a collection of one record.
C4_Witness ==
    \E p \in Passes :
        /\ pass[p].pc = "done"
        /\ Len(pass[p].vectors) = 1
        /\ Len(collection) = 1

\* C5: when a clustering pass is done, every record it covered carries the
\* label K-means gives that record's own embedding among the embeddings of
\* the covered records.
C5_LabelBoundToRecord ==
    \A p \in Passes :
        (pass[p].pc = "done" /\ Len(pass[p].vectors) >= 2) =>
            LET covered == {j \in 1..Len(collection) :
                               collection[j].id \in Range(pass[p].ids_to_update)}
                embeddings == {collection[j].embedding : j \in covered}
                k == IF K_CLUSTERS < Cardinality(covered)
                     THEN K_CLUSTERS ELSE Cardinality(covered)
            IN  /\ Cardinality(covered) = Len(pass[p].ids_to_update)
                /\ \A j \in covered :
                      /\ HasClusterId(collection[j])
                      /\ collection[j].metadata.cluster_id =
                            LabelOf(collection[j].embedding, embeddings, k)

\* C5 witness: a finished pass over three records that are not stored in
\* the order of their labels and do not all share one label.
C5_Witness ==
    \E p \in Passes :
        /\ pass[p].pc = "done"
        /\ Len(collection) = 3
        /\ collection[1].metadata.cluster_id > collection[2].metadata.cluster_id
        /\ collection[3].metadata.cluster_id > collection[2].metadata.cluster_id

\* C6: no step of a clustering pass changes a record's id, text, embedding
\* or any metadata key other than cluster_id: source and page keep their
\* values, and cluster_id is the only key ever added.
C6_PassOnlyTouchesClusterId ==
    [][(~Serial \/ ~Serial') =>
          /\ Len(collection') = Len(collection)
          /\ \A j \in 1..Len(collection) :
                /\ collection'[j].id = collection[j].id
                /\ collection'[j].document = collection[j].document
                /\ collection'[j].embedding = collection[j].embedding
                /\ DOMAIN collection'[j].metadata \ {"cluster_id"} =
                      DOMAIN collection[j].metadata \ {"cluster_id"}
                /\ DOMAIN collection[j].metadata \subseteq DOMAIN collection'[j].metadata
                /\ collection'[j].metadata.source = collection[j].metadata.source
                /\ collection'[j].metadata.page = collection[j].metadata.page]_vars

\* C6 witness: a pass is done; the three records carry a cluster_id next to
\* the source and page they were stored with.
C6_Witness ==
    \E p \in Passes :
        /\ pass[p].pc = "done"
        /\ pass[p].updates = 3
        /\ Len(collection) = 3
        /\ \A j \in 1..3 :
              /\ DOMAIN collection[j].metadata = {"source", "page", "cluster_id"}
              /\ collection[j].id =
                    collection[j].metadata.source \o "_p" \o Str(collection[j].metadata.page)

\* C7: a record that carries a cluster_id keeps carrying one through every
\* insert, clustering step and query, and a record gains a cluster_id only
\* by the update of a clustering pass that covers it.
C7_ClusteredStaysClustered ==
    [][\A j \in 1..Len(collection) :
          /\ Len(collection') >= Len(collection)
          /\ collection'[j].id = collection[j].id
          /\ HasClusterId(collection[j]) => HasClusterId(collection'[j])
          /\ (HasClusterId(collection'[j]) /\ ~HasClusterId(collection[j])) =>
                \E p \in Passes :
                    /\ pass[p].pc = "update"
                    /\ collection[j].id \in Range(pass[p].ids_to_update)]_vars

\* C7 witness: after a clustering pass over two records a third one was
\* inserted; the two still have their cluster_id, the new record has none.
C7_Witness ==
    /\ out.op = "add"
    /\ Len(collection) = 3
    /\ HasClusterId(collection[1]) /\ HasClusterId(collection[2])
    /\ ~HasClusterId(collection[3])

\* C8: when the store returned candidates and the threshold filter left none
\* of them, retrieve_relevant_docs returned empty lists, and query_once and
\* the chat loop alike report "no relevant information" having called
\* neither format_context nor generate_response.
C8_NothingRelevantSkipsGeneration ==
    (out.op = "query" /\ Len(out.candidates.documents) > 0 /\ KeptPositions = {}) =>
        /\ out.results = EmptyResults
        /\ out.outcome = "no_relevant"
        /\ out.context = <<>>
        /\ "format_context" \notin Range(out.calls)
        /\ "generate_response" \notin Range(out.calls)

\* C8 witness: a turn of the chat loop whose three candidates all fall
\* below the threshold.
C8_Witness ==
    /\ out.op = "query"
    /\ out.mode = "chat"
    /\ Len(out.candidates.documents) = 3
    /\ KeptPositions = {}
    /\ out.outcome = "no_relevant"

\* C9 (as claimed): a query against a collection without records fails; it
\* never ends in the "no relevant information" report.
C9_EmptyCollectionFails ==
    (out.op = "query" /\ collection = <<>>) => out.outcome = "error"

\* C10: the context of n results is n blocks of sixteen pieces with one
\* delimiter between neighbours (n - 1 in all); block i carries the number
\* i, the source, page and text of result i, its relevance 1 - distance to
\* three decimals, and its cluster_id or else "N/A".
C10_ContextHasOneBlockPerResult ==
    (out.op = "query" /\ "format_context" \in Range(out.calls)) =>
        LET r == out.results
            n == Len(r.documents)
            c == out.context
        IN  /\ n >= 1
            /\ Len(c) = 16 * n + (n - 1)
            /\ Cardinality({x \in 1..Len(c) : c[x] = Delimiter}) = n - 1
            /\ Cardinality({x \in 1..Len(c) : c[x] = "[Document "}) = n
            /\ \A i \in 1..n :
                  LET at == 17 * (i - 1)
                      m == r.metadatas[i]
                  IN  /\ c[at + 1] = "[Document " /\ c[at + 2] = Str(i)
                      /\ c[at + 4] = "Source: " /\ c[at + 5] = m.source
                      /\ c[at + 7] = Str(m.page)
                      /\ c[at + 9] = IF "cluster_id" \in DOMAIN m
                                     THEN Str(m.cluster_id) ELSE "N/A"
                      /\ c[at + 11] = "Relevance Score: "
                      /\ c[at + 12] = Fmt3(Unit - r.distances[i])
                      /\ c[at + 14] = "Content: " /\ c[at + 15] = r.documents[i]
                      /\ i < n => c[at + 17] = Delimiter

\* C10 witness: a context of two blocks; the first result is not clustered
\* and scores 1.000, the second is in cluster 0 and scores 0.750.
C10_Witness ==
    /\ out.op = "query"
    /\ Len(out.results.documents) = 2
    /\ Len(out.context) = 33
    /\ out.context[2] = "1" /\ out.context[9] = "N/A" /\ out.context[12] = "1.000"
    /\ out.context[17] = Delimiter
    /\ out.context[19] = "2" /\ out.context[26] = "0" /\ out.context[29] = "0.750"

\* C11 (as claimed): a configured RELEVANCE_THRESHOLD outside [0, 1] is
\* rejected at startup, so that no query ever calls retrieve_relevant_docs
\* with a threshold outside [0, 1].
C11_OutOfRangeThresholdRejected ==
    (out.op = "query" /\ "retrieve_relevant_docs" \in Range(out.calls))
        => RELEVANCE_THRESHOLD \in 0..Unit

\* All labels applied in one bulk metadata update: the stored metadata of
\* the records named ids, each with its label, written back in one call.
BulkUpdateOnce(col, ids, labels) ==
    LET fetched == SelectIds(col, Range(ids))
    IN  UpdateMetadatas(col, ids,
            WithClusterIds([i \in 1..Len(fetched) |-> fetched[i].metadata], labels))

\* The step is the bulk update that ends an iteration of the loop of pass p.
IsLoopUpdate(p) ==
    pass[p].pc = "update" /\ pass'[p].updates = pass[p].updates + 1

\* C12: with no concurrent writer, the update loop of perform_clustering is
\* idempotent: its first iteration leaves the collection as one bulk update
\* of all labels would, and every later iteration leaves the collection as
\* it found it, so the state after the n iterations is the state after the
\* first.
C12_UpdateLoopIsIdempotent ==
    [][\A p \in Passes :
          IsLoopUpdate(p) =>
              /\ collection' = BulkUpdateOnce(collection, pass[p].ids_to_update,
                                              pass[p].cluster_labels)
              /\ pass[p].updates >= 1 => collection' = collection]_vars

\* A loop of three iterations over records with different labels has ended.
C12_Witness ==
    \E p \in Passes :
        /\ pass[p].pc = "done"
        /\ pass[p].updates = 3
        /\ Len(pass[p].ids_to_update) = 3
        /\ \E i, j \in 1..3 : pass[p].cluster_labels[i] # pass[p].cluster_labels[j]
        /\ collection = BulkUpdateOnce(collection, pass[p].ids_to_update,
                                       pass[p].cluster_labels)

\* The label pass p computed for the record named id
LabelFrom(p, id) ==
    pass[p].cluster_labels[CHOOSE i \in 1..Len(pass[p].ids_to_update) :
                               pass[p].ids_to_update[i] = id]

Fetched(p) == Range(pass[p].ids_to_update)

\* The stored record carries the label pass p computed for it.
CarriesLabelOf(rec, p) ==
    /\ rec.id \in Fetched(p)
    /\ HasClusterId(rec)
    /\ rec.metadata.cluster_id = LabelFrom(p, rec.id)

\* C13: clustering runs that overlap can race (the witness below is the
\* final state of such a race); when the runs are serialized, that is when a
\* run shares none of its time with another, then at its end every record
\* it fetched is stored with the label this run computed for it.
C13_SerializedPassLabelsItsRecords ==
    \A p \in Passes :
        (pass[p].pc = "done" /\ pass[p].updates >= 1 /\ ~pass[p].overlapped)
            => \A id \in Fetched(p) :
                   \E j \in 1..Len(collection) :
                       collection[j].id = id /\ CarriesLabelOf(collection[j], p)

\* Both overlapping runs have ended, and the collection is left with one
\* record that carries the label of run p where run q computed another, and
\* one record that carries the label of run q where run p computed another
\* or none.
C13_Witness ==
    /\ \A p \in Passes : pass[p].pc = "done" /\ pass[p].updates >= 1
                         /\ pass[p].overlapped
    /\ \E p, q \in Passes : \E i, j \in 1..Len(collection) :
          /\ p # q /\ i # j
          /\ CarriesLabelOf(collection[i], p)
          /\ collection[i].id \in Fetched(q)
          /\ ~CarriesLabelOf(collection[i], q)
          /\ CarriesLabelOf(collection[j], q)
          /\ ~CarriesLabelOf(collection[j], p)
====
